---- MODULE Spec2Model ----
(***************************************************************************)
(* Two-sex, age-structured population viability simulator.                 *)
(*                                                                         *)
(*   src/src/vital_rates.py   VitalRates.apply_environmental_noise         *)
(*   src/src/catastrophe.py   Catastrophe.occurs / Catastrophe.apply       *)
(*   src/src/population.py    Population.advance_generation                *)
(*   src/src/simulation.py    Simulation.run                               *)
(*                                                                         *)
(* Conventions.                                                            *)
(*  - Arrays are sequences; Python index i is index i+1 here.              *)
(*  - A rate (float) is a fraction <<num, den>> with den > 0.  Every rate   *)
(*    used is dyadic, so the float product count * rate is exact and       *)
(*    int(round(.)) is round-half-to-even of the exact product.            *)
(*  - Optional[T] is a set: {} is None, {x} is the value x.  The float     *)
(*    np.inf of extinct_at is {} as well.                                  *)
(*  - numpy's global generator is the variable rng.  rng.det = FALSE is    *)
(*    the unconstrained source: every draw yields any value of its         *)
(*    distribution's support.  rng.det = TRUE is a deterministic generator *)
(*    whose draws are a function of its state rng.s, set by seeding.       *)
(***************************************************************************)
EXTENDS Integers, Sequences, FiniteSets, TLC

VARIABLES
    \* Population (population.py:33-37)
    female, male, carrying_capacity, reproduction_age, male_birth_prop,
    \* arguments of advance_generation / fields of Simulation
    vital_rates, catastrophe, demo_noise, env_noise,
    \* numpy's global random source
    rng,
    \* Simulation (simulation.py:90-100)
    initial_females, initial_males, n_generations, q_threshold, n_replicates, seed,
    \* locals of Simulation.run (simulation.py:108-162) and its position
    pc, base_seed, replicate, gen, records, extinct_at, trajectories, extinction_times,
    \* history: number of advance_generation calls on the current Population,
    \* and the counts at entry of the last call
    calls, pre_female, pre_male,
    \* the row of the table SimulationResult.summary returned, None before the call
    summary_row

popvars == <<female, male, carrying_capacity, reproduction_age, male_birth_prop>>
argvars == <<vital_rates, catastrophe, demo_noise, env_noise>>
simvars == <<initial_females, initial_males, n_generations, q_threshold, n_replicates, seed>>
runvars == <<pc, base_seed, replicate, gen, records, extinct_at, trajectories, extinction_times>>
histvars == <<calls, pre_female, pre_male>>
vars == <<popvars, argvars, rng, simvars, runvars, histvars, summary_row>>

----------------------------------------------------------------------------
(* Bounds of the model *)

\* states of the deterministic generator
RngMod == 16
\* resolution of a uniform draw: np.random.random() yields v / UDen, v in 0..UDen-1
UDen == 4
\* largest value a Poisson draw yields
MaxPoisson == 1
\* stands for 2**32 - 1 of simulation.py:110,112
SeedMod == 5
\* direct advance_generation calls on one Population
MaxCalls == 2
\* largest n_generations and n_replicates of a Simulation
MaxGenerations == 3
MaxReplicates == 2
\* a SimulationResult built directly: longest list of extinction times, largest time
MaxTimes == 4
MaxTime == 5

----------------------------------------------------------------------------
(* Helpers: optionals, fractions, rounding, sums *)

None == {}
Some(x) == {x}
The(s) == CHOOSE x \in s : TRUE

Zero == <<0, 1>>
Quarter == <<1, 4>>
Half == <<1, 2>>
ThreeQuarters == <<3, 4>>
One == <<1, 1>>
Two == <<2, 1>>

\* Python's round() on a non-negative float a/b: ties go to the even integer
RoundHalfEven(a, b) ==
    LET q == a \div b
        r == a % b
    IN  IF 2 * r < b THEN q
        ELSE IF 2 * r > b THEN q + 1
        ELSE IF q % 2 = 0 THEN q ELSE q + 1

\* int(round(n * p))
RoundMul(n, p) == RoundHalfEven(n * p[1], p[2])

\* 1.0 - p
Complement(p) == <<p[2] - p[1], p[2]>>

RECURSIVE SumSeq(_)
SumSeq(s) == IF s = <<>> THEN 0 ELSE Head(s) + SumSeq(Tail(s))

Zeros(n) == [i \in 1..n |-> 0]

----------------------------------------------------------------------------
(* numpy.random *)

FreeSource == [det |-> FALSE, s |-> 0]
Seeded(x) == [det |-> TRUE, s |-> x % RngMod]

\* one step of the deterministic generator
LcgStep(s) == (5 * s + 3) % RngMod
\* the uniform value (numerator over UDen) read off a generator state
UniformOf(s) == (s \div 4) % UDen

\* np.random.seed(x)
SeedSource(g, x) == IF g.det THEN Seeded(x) ELSE g

\* np.random.random(): set of [v, g], v / UDen in [0, 1)
Random(g) ==
    IF g.det
    THEN LET s1 == LcgStep(g.s) IN {[v |-> UniformOf(s1), g |-> [det |-> TRUE, s |-> s1]]}
    ELSE {[v |-> v, g |-> g] : v \in 0..(UDen - 1)}

\* np.random.randint(0, hi): a value in 0..hi-1
RandInt(g, hi) ==
    IF g.det
    THEN LET s1 == LcgStep(g.s) IN {[v |-> s1 % hi, g |-> [det |-> TRUE, s |-> s1]]}
    ELSE {[v |-> v, g |-> g] : v \in 0..(hi - 1)}

RECURSIVE BernoulliSum(_, _, _, _)
\* n trials with success probability p on the deterministic generator
BernoulliSum(n, p, s, acc) ==
    IF n = 0 THEN [v |-> acc, g |-> [det |-> TRUE, s |-> s]]
    ELSE LET s1 == LcgStep(s)
         IN  BernoulliSum(n - 1, p, s1,
                          acc + (IF UniformOf(s1) * p[2] < p[1] * UDen THEN 1 ELSE 0))

\* np.random.binomial(n, p), 0 <= p <= 1: support {0} at p = 0, {n} at p = 1, else 0..n
Binomial(n, p, g) ==
    IF g.det THEN {BernoulliSum(n, p, g.s, 0)}
    ELSE IF p[1] = 0 THEN {[v |-> 0, g |-> g]}
    ELSE IF p[1] >= p[2] THEN {[v |-> n, g |-> g]}
    ELSE {[v |-> k, g |-> g] : k \in 0..n}

\* np.random.poisson(lam), lam = a/b >= 0: 0 at lam = 0, else any natural (capped)
Poisson(lam, g) ==
    IF lam[1] = 0 THEN {[v |-> 0, g |-> g]}
    ELSE IF g.det
    THEN LET s1 == LcgStep(g.s)
         IN  {[v |-> s1 % (MaxPoisson + 1), g |-> [det |-> TRUE, s |-> s1]]}
    ELSE {[v |-> k, g |-> g] : k \in 0..MaxPoisson}

\* the deviates a draw of np.random.normal(1.0, sd), sd > 0, is sampled at;
\* a negative deviate is clipped to the same rate as the deviate 0
NormalDeviates == <<Zero, One, Two>>

\* one entry of np.random.normal(1.0, sd, size=...)
Normal(g) ==
    IF g.det
    THEN LET s1 == LcgStep(g.s)
         IN  {[v |-> NormalDeviates[(s1 % Len(NormalDeviates)) + 1],
               g |-> [det |-> TRUE, s |-> s1]]}
    ELSE {[v |-> NormalDeviates[k], g |-> g] : k \in 1..Len(NormalDeviates)}

----------------------------------------------------------------------------
(* VitalRates (vital_rates.py) *)

\* rate * deviate; a zero product is written Zero
Mul(a, b) == IF a[1] * b[1] = 0 THEN Zero ELSE <<a[1] * b[1], a[2] * b[2]>>

\* np.clip(x, 0.0, 1.0) and np.clip(x, 0.0, None) on a product that is >= 0
\* (a product with a negative deviate is the product with the deviate 0)
ClipSurvival(x) == IF x[1] >= x[2] THEN One ELSE x
ClipFertility(x) == x

RECURSIVE NoisyFrom(_, _, _, _)
\* base * np.random.normal(1.0, sd, size=base.shape), clipped, entry by entry:
\* S is the set of [a, g] built from the entries before i
NoisyFrom(base, i, S, survival) ==
    IF i > Len(base) THEN S
    ELSE NoisyFrom(base, i + 1,
            UNION {{[a |-> Append(p.a, IF survival THEN ClipSurvival(Mul(base[i], d.v))
                                                   ELSE ClipFertility(Mul(base[i], d.v))),
                     g |-> d.g] : d \in Normal(p.g)} : p \in S},
            survival)

NoisyArray(base, g, survival) == NoisyFrom(base, 1, {[a |-> <<>>, g |-> g]}, survival)

\* VitalRates.apply_environmental_noise: set of [fs, ms, ff, mf, g]
ApplyEnvironmentalNoise(vr, g) ==
    LET surv ==
            IF vr.env_sd_survival[1] > 0
            THEN UNION {{[fs |-> fa.a, ms |-> ma.a, g |-> ma.g]
                            : ma \in NoisyArray(vr.male_survival, fa.g, TRUE)}
                            : fa \in NoisyArray(vr.female_survival, g, TRUE)}
            ELSE {[fs |-> vr.female_survival, ms |-> vr.male_survival, g |-> g]}
        Fert(s) ==
            IF vr.env_sd_fertility[1] > 0
            THEN UNION {{[fs |-> s.fs, ms |-> s.ms, ff |-> fa.a, mf |-> ma.a, g |-> ma.g]
                            : ma \in NoisyArray(vr.male_fertility, fa.g, FALSE)}
                            : fa \in NoisyArray(vr.female_fertility, s.g, FALSE)}
            ELSE {[fs |-> s.fs, ms |-> s.ms, ff |-> vr.female_fertility,
                   mf |-> vr.male_fertility, g |-> s.g]}
    IN  UNION {Fert(s) : s \in surv}

\* population.py:63-71
EffectiveRates(vr, env, g) ==
    IF env THEN ApplyEnvironmentalNoise(vr, g)
    ELSE {[fs |-> vr.female_survival, ms |-> vr.male_survival,
           ff |-> vr.female_fertility, mf |-> vr.male_fertility, g |-> g]}

----------------------------------------------------------------------------
(* Catastrophe (catastrophe.py) *)

\* mutant: np.random.random() <= self.probability
OccursInclusive(cat, g) ==
    {[v |-> u.v * cat.probability[2] <= cat.probability[1] * UDen, g |-> u.g] : u \in Random(g)}

\* Catastrophe.occurs: np.random.random() < self.probability; set of [v, g]
Occurs(cat, g) ==
    {[v |-> u.v * cat.probability[2] < cat.probability[1] * UDen, g |-> u.g] : u \in Random(g)}

\* one count of Catastrophe.apply; set of [v, g]
Thin(n, cat, demo, g) ==
    IF demo THEN Binomial(n, Complement(cat.mortality_rate), g)
    ELSE {[v |-> RoundMul(n, Complement(cat.mortality_rate)), g |-> g]}

RECURSIVE ThinLoop(_, _, _, _)
\* the loop of Catastrophe.apply from class i on: new_f[i] then new_m[i]
ThinLoop(S, i, cat, demo) ==
    IF S = {} \/ i > Len((The(S)).nf) THEN S
    ELSE ThinLoop(
            UNION {UNION {{[st EXCEPT !.nf[i] = tf.v, !.nm[i] = tm.v, !.g = tm.g]
                              : tm \in Thin(st.nm[i], cat, demo, tf.g)}
                              : tf \in Thin(st.nf[i], cat, demo, st.g)} : st \in S},
            i + 1, cat, demo)

\* Catastrophe.apply(new_f, new_m, demo_noise)
CatastropheApply(cat, st, demo) ==
    UNION {IF o.v THEN ThinLoop({[st EXCEPT !.g = o.g, !.fired = TRUE]}, 1, cat, demo)
                  ELSE {[st EXCEPT !.g = o.g]} : o \in Occurs(cat, st.g)}

----------------------------------------------------------------------------
(* Population.advance_generation (population.py:39-145) *)

\* one class's survivors; set of [v, g]
Survivors(n, p, demo, g) ==
    IF demo THEN Binomial(n, p, g) ELSE {[v |-> RoundMul(n, p), g |-> g]}

\* survivors of class i of both sexes are added to class to
SurviveClass(st, i, to, pop, r, demo) ==
    UNION {{[st EXCEPT !.nf[to] = @ + sf.v, !.nm[to] = @ + sm.v, !.g = sm.g]
               : sm \in Survivors(pop.male[i], r.ms[i], demo, sf.g)}
               : sf \in Survivors(pop.female[i], r.fs[i], demo, st.g)}

RECURSIVE SurvivalLoop(_, _, _, _, _)
\* for i in range(age_classes - 1): class i moves to class i + 1
SurvivalLoop(S, i, pop, r, demo) ==
    IF i > Len(pop.female) - 1 THEN S
    ELSE SurvivalLoop(UNION {SurviveClass(st, i, i + 1, pop, r, demo) : st \in S},
                      i + 1, pop, r, demo)

\* the survival stage: the loop, then the last class, which stays in place
Survival(pop, r, demo) ==
    LET A == Len(pop.female)
        start == [nf |-> Zeros(A), nm |-> Zeros(A), g |-> r.g, births |-> 0, fired |-> FALSE]
    IN  UNION {SurviveClass(st, A, A, pop, r, demo)
                  : st \in SurvivalLoop({start}, 1, pop, r, demo)}

\* mutant: births computed from the pre-transition count self.female[i]
NFemalesPreTransition(pop, st, i) == pop.female[i]

\* n_females = new_f[i]
NFemales(pop, st, i) == st.nf[i]

\* births of the females of one class; set of [v, g]
BirthsOf(n, rate, demo, g) ==
    IF demo THEN Poisson(<<n * rate[1], rate[2]>>, g)
    ELSE {[v |-> RoundMul(n, rate), g |-> g]}

RECURSIVE ReproductionLoop(_, _, _, _, _)
\* for i in range(self.reproduction_age, age_classes): births += births_i
ReproductionLoop(S, i, pop, r, demo) ==
    IF i > Len(pop.female) THEN S
    ELSE ReproductionLoop(
            UNION {{[st EXCEPT !.births = @ + b.v, !.g = b.g]
                       : b \in BirthsOf(NFemales(pop, st, i), r.ff[i], demo, st.g)} : st \in S},
            i + 1, pop, r, demo)

\* the sexes of the births, written to class 0
AssignSexes(st, pop, demo) ==
    LET males == IF st.births > 0
                 THEN IF demo THEN Binomial(st.births, pop.male_birth_prop, st.g)
                      ELSE {[v |-> RoundMul(st.births, pop.male_birth_prop), g |-> st.g]}
                 ELSE {[v |-> 0, g |-> st.g]}
    IN  {[st EXCEPT !.nf[1] = st.births - mb.v, !.nm[1] = mb.v, !.g = mb.g] : mb \in males}

\* the reproduction stage
Reproduction(st, pop, r, demo) ==
    UNION {AssignSexes(s2, pop, demo)
              : s2 \in ReproductionLoop({st}, pop.reproduction_age + 1, pop, r, demo)}

\* <<count, K, total>>, for the capacities K configured below and total <= 100,
\* at which the float product count * (K / float(total)) lies just below the
\* integer count * K / total, so that astype(int) yields one less
FloatShortfall ==
    {<<22, 15, 22>>, <<26, 15, 26>>, <<44, 15, 44>>, <<47, 3, 47>>, <<49, 2, 49>>,
     <<49, 4, 49>>, <<52, 15, 52>>, <<55, 15, 55>>, <<88, 15, 88>>, <<94, 3, 94>>,
     <<97, 50, 97>>, <<49, 2, 98>>, <<98, 2, 98>>, <<49, 4, 98>>, <<98, 4, 98>>}

\* mutant: one less than the truncated product for every count
TruncScaleBelow(c, K, total) == ((c * K) \div total) - 1

\* (new * ratio).astype(int) for one count, ratio = K / float(total), 0 <= K < total
TruncScale(c, K, total) ==
    ((c * K) \div total) - (IF <<c, K, total>> \in FloatShortfall THEN 1 ELSE 0)

RECURSIVE ScaleLoop(_, _, _, _, _)
\* [np.random.binomial(int(new[i]), ratio) for i in range(age_classes)], for one
\* sex: female when fem, else male
ScaleLoop(S, i, K, total, fem) ==
    IF S = {} \/ i > Len((The(S)).nf) THEN S
    ELSE ScaleLoop(
            UNION {{IF fem THEN [st EXCEPT !.nf[i] = b.v, !.g = b.g]
                           ELSE [st EXCEPT !.nm[i] = b.v, !.g = b.g]
                       : b \in Binomial(IF fem THEN st.nf[i] ELSE st.nm[i], <<K, total>>, st.g)}
                       : st \in S},
            i + 1, K, total, fem)

\* the carrying-capacity stage (population.py:126-141)
EnforceCapacity(K, st, demo) ==
    LET total == SumSeq(st.nf) + SumSeq(st.nm)
    IN  IF total > K /\ total > 0
        THEN IF demo
             THEN ScaleLoop(ScaleLoop({st}, 1, K, total, TRUE), 1, K, total, FALSE)
             ELSE {[st EXCEPT !.nf = [i \in 1..Len(st.nf) |-> TruncScale(st.nf[i], K, total)],
                              !.nm = [i \in 1..Len(st.nm) |-> TruncScale(st.nm[i], K, total)]]}
        ELSE {st}

\* advance_generation: the set of [nf, nm, g, births, fired] it can end in, where
\* nf, nm are the new self.female, self.male and g the random source afterwards
AdvanceGeneration(pop, vr, cat, demo, env, g) ==
    LET rates == EffectiveRates(vr, env, g)
        born == UNION {UNION {Reproduction(st, pop, r, demo) : st \in Survival(pop, r, demo)}
                          : r \in rates}
        struck == IF cat = None THEN born
                  ELSE UNION {CatastropheApply(The(cat), st, demo) : st \in born}
    IN  IF pop.carrying_capacity = None THEN struck
        ELSE UNION {EnforceCapacity(The(pop.carrying_capacity), st, demo) : st \in struck}

----------------------------------------------------------------------------
(* Configurations *)

Const(n, x) == [i \in 1..n |-> x]

\* VitalRates(female_survival, male_survival, female_fertility, male_fertility,
\*            env_sd_survival, env_sd_fertility)
VR(fs, ms, ff, sds, sdf) ==
    [female_survival |-> fs, male_survival |-> ms, female_fertility |-> ff,
     male_fertility |-> Const(Len(ff), Zero), env_sd_survival |-> sds, env_sd_fertility |-> sdf]

Cat(p, m) == [probability |-> p, mortality_rate |-> m]

\* rate profiles for n age classes, noise off
\*  survival 1, fertility 0 (test_survival_deterministic)
AgingRates(n) == VR(Const(n, One), Const(n, One), Const(n, Zero), Zero, Zero)
\*  survival 1, fertility 2 from class 1 on (test_reproduction_deterministic)
BreedingRates(n) ==
    VR(Const(n, One), Const(n, One), [i \in 1..n |-> IF i = 1 THEN Zero ELSE Two], Zero, Zero)
\*  fractional rates, fertility also in class 0
MixedRates(n) ==
    VR(Const(n, Half), [i \in 1..n |-> IF i = 1 THEN ThreeQuarters ELSE Half],
       [i \in 1..n |-> IF i = 1 THEN Half ELSE <<3, 2>>], Zero, Zero)

\* a rate profile with noise: survival 1/2 (female) and 1 (male), fertility 1/2
\* from class 1 on
NoisyRates(n, sd) ==
    VR(Const(n, Half), Const(n, One), [i \in 1..n |-> IF i = 1 THEN Zero ELSE Half], sd, sd)

\* Populations advanced directly, without demographic noise
DetCounts ==
    {<<<<50>>, <<50>>>>, <<<<3>>, <<2>>>>,
     <<<<10, 0>>, <<10, 0>>>>, <<<<0, 10>>, <<0, 10>>>>, <<<<10, 10>>, <<10, 10>>>>,
     <<<<3, 5>>, <<2, 1>>>>, <<<<0, 22>>, <<0, 0>>>>,
     <<<<4, 2, 1>>, <<3, 0, 2>>>>}

DetPopConfigs ==
    {[female |-> c[1], male |-> c[2], carrying_capacity |-> K, reproduction_age |-> ra,
      male_birth_prop |-> mbp, vital_rates |-> vr, catastrophe |-> cat,
      demo_noise |-> FALSE, env_noise |-> FALSE] :
        c \in DetCounts,
        K \in {None, Some(50), Some(15), Some(4), Some(0)},
        ra \in {0, 1, 2},
        mbp \in {Half, Quarter},
        vr \in UNION {{AgingRates(n), BreedingRates(n), MixedRates(n)} : n \in 1..3},
        cat \in {None, Some(Cat(One, Half)), Some(Cat(Half, Half)), Some(Cat(Zero, Half)),
                 Some(Cat(Half, Quarter))}}

\* Populations advanced directly with demographic and/or environmental noise
NoisyPopConfigs ==
    {[female |-> c[1], male |-> c[2], carrying_capacity |-> K, reproduction_age |-> 1,
      male_birth_prop |-> Half, vital_rates |-> NoisyRates(Len(c[1]), fl[3]),
      catastrophe |-> cat, demo_noise |-> fl[1], env_noise |-> fl[2]] :
        c \in {<<<<2>>, <<1>>>>, <<<<1, 1>>, <<1, 0>>>>},
        K \in {None, Some(2)},
        cat \in {None, Some(Cat(Half, Half))},
        fl \in {<<TRUE, FALSE, Zero>>, <<FALSE, TRUE, Quarter>>, <<TRUE, TRUE, Quarter>>}}

\* Catastrophe and VitalRates are plain dataclasses: any value is accepted.
\* A negative probability, a mortality rate outside [0, 1], negative standard
\* deviations
OutOfDomainCatastrophes ==
    {Cat(<<-1, 2>>, Half), Cat(One, <<3, 2>>), Cat(One, <<-1, 2>>)}

OutOfDomainPopConfigs ==
    {[female |-> <<3, 5>>, male |-> <<2, 1>>, carrying_capacity |-> None,
      reproduction_age |-> 1, male_birth_prop |-> Half, vital_rates |-> vr,
      catastrophe |-> Some(cat), demo_noise |-> FALSE, env_noise |-> FALSE] :
        vr \in {AgingRates(2), MixedRates(2)}, cat \in OutOfDomainCatastrophes}
    \cup
    {[female |-> <<3, 5>>, male |-> <<2, 1>>, carrying_capacity |-> None,
      reproduction_age |-> 1, male_birth_prop |-> Half,
      vital_rates |-> NoisyRates(2, <<-1, 4>>),
      catastrophe |-> None, demo_noise |-> dn, env_noise |-> TRUE] : dn \in BOOLEAN}

PopConfigs ==
    {c \in DetPopConfigs \cup NoisyPopConfigs \cup OutOfDomainPopConfigs :
        Len(c.vital_rates.female_survival) = Len(c.female)}

----------------------------------------------------------------------------
(* A Population advanced directly, as the tests do *)

ThePopulation ==
    [female |-> female, male |-> male, carrying_capacity |-> carrying_capacity,
     reproduction_age |-> reproduction_age, male_birth_prop |-> male_birth_prop]

InitPop ==
    \E c \in PopConfigs :
        /\ female = c.female /\ male = c.male
        /\ carrying_capacity = c.carrying_capacity
        /\ reproduction_age = c.reproduction_age
        /\ male_birth_prop = c.male_birth_prop
        /\ vital_rates = c.vital_rates
        /\ catastrophe = c.catastrophe
        /\ demo_noise = c.demo_noise /\ env_noise = c.env_noise
        /\ rng = FreeSource
        /\ initial_females = c.female /\ initial_males = c.male
        /\ n_generations = 0 /\ q_threshold = 0 /\ n_replicates = 0 /\ seed = None
        /\ pc = "direct" /\ base_seed = 0 /\ replicate = 0 /\ gen = 0
        /\ records = <<>> /\ extinct_at = None
        /\ trajectories = <<>> /\ extinction_times = <<>>
        /\ calls = 0 /\ pre_female = c.female /\ pre_male = c.male
        /\ summary_row = None

\* pop.advance_generation(vital_rates, catastrophe, demo_noise, env_noise)
advance_generation ==
    /\ pc = "direct"
    /\ calls < MaxCalls
    /\ \E res \in AdvanceGeneration(ThePopulation, vital_rates, catastrophe,
                                    demo_noise, env_noise, rng) :
          /\ female' = res.nf
          /\ male' = res.nm
          /\ rng' = res.g
    /\ pre_female' = female /\ pre_male' = male
    /\ calls' = calls + 1
    /\ UNCHANGED <<carrying_capacity, reproduction_age, male_birth_prop>>
    /\ UNCHANGED <<argvars, simvars, runvars, summary_row>>

NextPop == advance_generation

SpecPop == InitPop /\ [][NextPop]_vars

----------------------------------------------------------------------------
(* Simulation (simulation.py) *)

SimConfig(c, vr, cat, K, ng, q, nr, dn, en, sd, g) ==
    [initial_females |-> c[1], initial_males |-> c[2], vital_rates |-> vr,
     catastrophe |-> cat, carrying_capacity |-> K, n_generations |-> ng,
     q_threshold |-> q, n_replicates |-> nr, demo_noise |-> dn, env_noise |-> en,
     seed |-> sd, rng |-> g]

\* simulations without noise, on the unconstrained source
DetSimConfigs ==
    {SimConfig(c, vr, cat, K, ng, q, nr, FALSE, FALSE, sd, FreeSource) :
        c \in {<<<<3, 5>>, <<2, 1>>>>, <<<<1, 1>>, <<1, 0>>>>, <<<<4>>, <<3>>>>,
               <<<<4, 2, 1>>, <<3, 0, 2>>>>},
        vr \in UNION {{AgingRates(n), BreedingRates(n), MixedRates(n)} : n \in 1..3},
        cat \in {None, Some(Cat(One, Half)), Some(Cat(Half, Half))},
        K \in {None, Some(4)},
        ng \in 0..MaxGenerations,
        q \in {0, 3, 11},
        nr \in 0..MaxReplicates,
        sd \in {Some(0)}}

\* simulations with noise, on the unconstrained source
NoisySimConfigs ==
    {SimConfig(<<<<1, 1>>, <<1, 0>>>>, NoisyRates(2, fl[3]), cat, K, ng, q, nr,
               fl[1], fl[2], Some(0), FreeSource) :
        fl \in {<<TRUE, FALSE, Zero>>, <<FALSE, TRUE, Quarter>>, <<TRUE, TRUE, Quarter>>},
        cat \in {None, Some(Cat(Half, Half))},
        K \in {None, Some(2)},
        ng \in 1..2,
        q \in {0, 1},
        nr \in {1}}

\* simulations with noise on the deterministic generator, left in any state by
\* whatever ran before
SeededSimConfigs ==
    {SimConfig(<<<<2, 2>>, <<2, 1>>>>, NoisyRates(2, Quarter), cat, K, ng, q, nr,
               TRUE, en, sd, [det |-> TRUE, s |-> s0]) :
        cat \in {None, Some(Cat(Half, Half))},
        K \in {None, Some(4)},
        ng \in 0..MaxGenerations,
        q \in {0, 2},
        nr \in 1..MaxReplicates,
        en \in BOOLEAN,
        sd \in {None, Some(0), Some(3), Some(SeedMod - 1)},
        s0 \in 0..(RngMod - 1)}

SimConfigs ==
    {c \in DetSimConfigs \cup NoisySimConfigs \cup SeededSimConfigs :
        Len(c.vital_rates.female_survival) = Len(c.initial_females)}

\* Simulation.__init__, and reproduction_age / male_birth_prop as run passes them
Init ==
    \E c \in SimConfigs :
        /\ initial_females = c.initial_females /\ initial_males = c.initial_males
        /\ vital_rates = c.vital_rates
        /\ catastrophe = c.catastrophe
        /\ carrying_capacity = c.carrying_capacity
        /\ n_generations = c.n_generations
        /\ q_threshold = c.q_threshold
        /\ n_replicates = c.n_replicates
        /\ demo_noise = c.demo_noise /\ env_noise = c.env_noise
        /\ seed = c.seed
        /\ rng = c.rng
        /\ female = <<>> /\ male = <<>>
        /\ reproduction_age = 1 /\ male_birth_prop = Half
        /\ pc = "run" /\ base_seed = 0 /\ replicate = 0 /\ gen = 0
        /\ records = <<>> /\ extinct_at = None
        /\ trajectories = <<>> /\ extinction_times = <<>>
        /\ calls = 0 /\ pre_female = <<>> /\ pre_male = <<>>
        /\ summary_row = None

\* one row of a trajectory
Row(g, f, m, t) == [generation |-> g, female |-> f, male |-> m, total |-> t]

\* Population.total_population
TotalPopulation(f, m) == SumSeq(f) + SumSeq(m)

\* mutant: extinct only strictly below the threshold
IsExtinctBelow(f, m, q) == TotalPopulation(f, m) < q

\* Population.is_extinct
IsExtinct(f, m, q) == TotalPopulation(f, m) <= q

\* mutant: every replicate seeded with base_seed
ReplicateSeedSame(b, r) == b % SeedMod

\* the seed of a replicate: (base_seed + replicate) % (2**32 - 1)
ReplicateSeed(b, r) == (b + r) % SeedMod

\* mutant: the padding starts at extinct_at instead of extinct_at + 1
PaddingFromExtinctAt(ext, ng) ==
    IF ext # None /\ The(ext) < ng
    THEN [k \in 1..(ng - The(ext) + 1) |-> Row(The(ext) + k - 1, 0, 0, 0)]
    ELSE <<>>

\* the rows appended after the generation loop (simulation.py:149-158)
Padding(ext, ng) ==
    IF ext # None /\ The(ext) < ng
    THEN [k \in 1..(ng - The(ext)) |-> Row(The(ext) + k, 0, 0, 0)]
    ELSE <<>>

\* mutant: the counts the previous replicate's Population ended with are carried
\* into the next replicate
CarriedCounts(initial, previous) == IF previous = <<>> THEN initial ELSE previous

\* self.initial_females.copy(): a fresh array equal to the run's initial counts,
\* whatever the Population of the previous replicate ended with
CopiedCounts(initial, previous) == initial

\* simulation.py:108-110
run_begin ==
    /\ pc = "run"
    /\ trajectories' = <<>>
    /\ extinction_times' = <<>>
    /\ IF seed # None
       THEN base_seed' = The(seed) /\ rng' = rng
       ELSE \E d \in RandInt(rng, SeedMod) : base_seed' = d.v /\ rng' = d.g
    /\ replicate' = 0
    /\ pc' = IF n_replicates > 0 THEN "replicate" ELSE "return"
    /\ UNCHANGED <<popvars, argvars, simvars, gen, records, extinct_at, histvars, summary_row>>

\* simulation.py:111-129: reseed, a fresh Population, the row of generation 0
replicate_begin ==
    /\ pc = "replicate"
    /\ rng' = SeedSource(rng, ReplicateSeed(base_seed, replicate))
    /\ female' = CopiedCounts(initial_females, female)
    /\ male' = CopiedCounts(initial_males, male)
    /\ reproduction_age' = 1
    /\ male_birth_prop' = Half
    /\ extinct_at' = None
    /\ records' = <<Row(0, SumSeq(female'), SumSeq(male'), TotalPopulation(female', male'))>>
    /\ gen' = 1
    /\ calls' = 0 /\ pre_female' = female' /\ pre_male' = male'
    /\ pc' = IF n_generations >= 1 THEN "generation" ELSE "after_loop"
    /\ UNCHANGED <<carrying_capacity, argvars, simvars, base_seed, replicate,
                   trajectories, extinction_times, summary_row>>

\* simulation.py:130-148: one pass of the generation loop
generation ==
    /\ pc = "generation"
    /\ \E res \in AdvanceGeneration(ThePopulation, vital_rates, catastrophe,
                                    demo_noise, env_noise, rng) :
          /\ female' = res.nf
          /\ male' = res.nm
          /\ rng' = res.g
          /\ records' = Append(records, Row(gen, SumSeq(res.nf), SumSeq(res.nm),
                                            TotalPopulation(res.nf, res.nm)))
          /\ IF IsExtinct(res.nf, res.nm, q_threshold)
             THEN /\ extinct_at' = Some(gen)
                  /\ gen' = gen
                  /\ pc' = "after_loop"
             ELSE /\ extinct_at' = extinct_at
                  /\ gen' = IF gen < n_generations THEN gen + 1 ELSE gen
                  /\ pc' = IF gen < n_generations THEN "generation" ELSE "after_loop"
    /\ pre_female' = female /\ pre_male' = male
    /\ calls' = calls + 1
    /\ UNCHANGED <<carrying_capacity, reproduction_age, male_birth_prop, argvars, simvars,
                   base_seed, replicate, trajectories, extinction_times, summary_row>>

\* simulation.py:149-161: the padding, and the replicate's entries in the results
replicate_end ==
    /\ pc = "after_loop"
    /\ records' = records \o Padding(extinct_at, n_generations)
    /\ trajectories' = Append(trajectories, records')
    /\ extinction_times' = Append(extinction_times, extinct_at)
    /\ replicate' = replicate + 1
    /\ pc' = IF replicate + 1 < n_replicates THEN "replicate" ELSE "return"
    /\ UNCHANGED <<popvars, argvars, rng, simvars, base_seed, gen, extinct_at, histvars,
                   summary_row>>

\* simulation.py:162: SimulationResult(trajectories, extinction_times, q_threshold)
run_return ==
    /\ pc = "return"
    /\ pc' = "done"
    /\ UNCHANGED <<popvars, argvars, rng, simvars, base_seed, replicate, gen, records,
                   extinct_at, trajectories, extinction_times, histvars, summary_row>>

----------------------------------------------------------------------------
(* SimulationResult.summary (simulation.py:35-55) *)

\* float('nan')
NaN == {}

RECURSIVE Gcd(_, _)
Gcd(a, b) == IF b = 0 THEN a ELSE Gcd(b, a % b)

\* the float a / b, b > 0, a >= 0, as a fraction in lowest terms
Float(a, b) == LET d == Gcd(a, b) IN {<<a \div d, b \div d>>}

\* [t for t in self.extinction_times if t < np.inf]
FiniteTimes(ts) ==
    LET f == SelectSeq(ts, LAMBDA t : t # None) IN [i \in 1..Len(f) |-> The(f[i])]

RECURSIVE Insert(_, _)
\* x put in its place in the sorted sequence s
Insert(x, s) ==
    IF s = <<>> THEN <<x>>
    ELSE IF x <= Head(s) THEN <<x>> \o s
    ELSE <<Head(s)>> \o Insert(x, Tail(s))

RECURSIVE Sorted(_)
Sorted(s) == IF s = <<>> THEN <<>> ELSE Insert(Head(s), Sorted(Tail(s)))

\* float(np.mean(times)) if times else float('nan')
Mean(times) == IF times = <<>> THEN NaN ELSE Float(SumSeq(times), Len(times))

\* mutant: the lower middle element for a list of even length
MedianLower(times) ==
    IF times = <<>> THEN NaN
    ELSE Float(Sorted(times)[(Len(times) + 1) \div 2], 1)

\* float(np.median(times)) if times else float('nan'): the middle element of the
\* sorted list, the mean of the two middle elements for an even length
Median(times) ==
    IF times = <<>> THEN NaN
    ELSE LET s == Sorted(times)
             n == Len(s)
         IN  IF n % 2 = 1 THEN Float(s[(n + 1) \div 2], 1)
             ELSE Float(s[n \div 2] + s[(n \div 2) + 1], 2)

\* the row of the table built from self.extinction_times
Summary(ts) ==
    LET n_replicates_ == Len(ts)
        times == FiniteTimes(ts)
        n_extinct == Len(times)
    IN  [replicates |-> n_replicates_,
         extinct |-> n_extinct,
         extinction_probability |->
             IF n_replicates_ # 0 THEN Float(n_extinct, n_replicates_) ELSE NaN,
         mean_time_to_extinction |-> Mean(times),
         median_time_to_extinction |-> Median(times)]

\* result.summary(), on the result run returned or on one built directly
summary ==
    /\ pc \in {"done", "result"}
    /\ summary_row = None
    /\ summary_row' = Some(Summary(extinction_times))
    /\ UNCHANGED <<popvars, argvars, rng, simvars, runvars, histvars>>

Next ==
    run_begin \/ replicate_begin \/ generation \/ replicate_end \/ run_return \/ summary

Spec == Init /\ [][Next]_vars

----------------------------------------------------------------------------
(* A SimulationResult built directly from a list of extinction times *)

RECURSIVE Lists(_, _)
\* the lists of length n over the set S
Lists(n, S) == IF n = 0 THEN {<<>>} ELSE {Append(l, x) : l \in Lists(n - 1, S), x \in S}

\* np.inf or a generation index
ExtinctionTimes == {None} \cup {Some(t) : t \in 0..MaxTime}

\* SimulationResult(trajectories=[], extinction_times=ts, q_threshold=0)
InitResult ==
    \E n \in 0..MaxTimes : \E ts \in Lists(n, ExtinctionTimes) :
        /\ extinction_times = ts
        /\ trajectories = <<>> /\ q_threshold = 0
        /\ female = <<>> /\ male = <<>> /\ carrying_capacity = None
        /\ reproduction_age = 1 /\ male_birth_prop = Half
        /\ vital_rates = AgingRates(1) /\ catastrophe = None
        /\ demo_noise = FALSE /\ env_noise = FALSE
        /\ rng = FreeSource
        /\ initial_females = <<>> /\ initial_males = <<>>
        /\ n_generations = 0 /\ n_replicates = 0 /\ seed = None
        /\ pc = "result" /\ base_seed = 0 /\ replicate = 0 /\ gen = 0
        /\ records = <<>> /\ extinct_at = None
        /\ calls = 0 /\ pre_female = <<>> /\ pre_male = <<>>
        /\ summary_row = None

NextResult == summary

SpecResult == InitResult /\ [][NextResult]_vars

----------------------------------------------------------------------------
(* Properties *)

\* the Population as it was at entry of the last advance_generation call
PrePopulation ==
    [female |-> pre_female, male |-> pre_male, carrying_capacity |-> carrying_capacity,
     reproduction_age |-> reproduction_age, male_birth_prop |-> male_birth_prop]

\* both noise flags off
NoNoise == ~demo_noise /\ ~env_noise

\* survival = 1 in every class of both sexes, fertility = 0
SurvivalOneFertilityZero ==
    /\ \A i \in 1..Len(vital_rates.female_survival) :
          /\ vital_rates.female_survival[i][1] = vital_rates.female_survival[i][2]
          /\ vital_rates.male_survival[i][1] = vital_rates.male_survival[i][2]
    /\ \A i \in 1..Len(vital_rates.female_fertility) : vital_rates.female_fertility[i][1] = 0

\* the post-survival count of class i (index i, Python class i - 1) without
\* demographic noise: the survivors of class i - 1, and in the last class also its own
Aged(old, surv, i) ==
    (IF i = 1 THEN 0 ELSE RoundMul(old[i - 1], surv[i - 1]))
    + (IF i = Len(old) THEN RoundMul(old[i], surv[i]) ELSE 0)

\* C1: with a carrying capacity K configured, after every advance_generation call
\* (with or without demographic noise or catastrophe) female.sum() + male.sum() <= K
C1_TotalWithinCapacity ==
    (calls > 0 /\ carrying_capacity # None)
        => TotalPopulation(female, male) <= The(carrying_capacity)

\* the rows of trajectory t that lie after row g are all zero
ZeroAfter(t, g) ==
    \A h \in (g + 1)..Len(t) : t[h].total = 0 /\ t[h].female = 0 /\ t[h].male = 0

\* C2: in a finished run, a recorded total <= q_threshold at generation g, g = 0
\* included, is followed only by all-zero rows
C2_ZeroAfterQuasiExtinction ==
    pc = "done" =>
        \A r \in 1..Len(trajectories) :
            \A g \in 1..Len(trajectories[r]) :
                trajectories[r][g].total <= q_threshold => ZeroAfter(trajectories[r], g)

\* the generations of trajectory t at which the total is <= q
QuasiExtinctAt(t, q) == {t[g].generation : g \in {h \in 1..Len(t) : t[h].total <= q}}

\* C3: the extinction time of a replicate is the smallest generation in
\* 0..n_generations whose total is <= q_threshold, and the infinite sentinel
\* exactly when there is none
C3_FirstQuasiExtinction ==
    pc = "done" =>
        \A r \in 1..Len(trajectories) :
            LET E == QuasiExtinctAt(trajectories[r], q_threshold)
            IN  extinction_times[r] =
                    (IF E = {} THEN None ELSE Some(CHOOSE g \in E : \A h \in E : g <= h))

\* trajectory t has the rows of generations 0, 1, ..., ng in this order
FullLength(t, ng) == Len(t) = ng + 1 /\ \A k \in 1..Len(t) : t[k].generation = k - 1

\* C4: every finished replicate has n_generations + 1 rows, row k of generation
\* k; the results grow by one trajectory and one extinction time per replicate,
\* in replicate order, and hold n_replicates of each when run returns
C4_TrajectoryShape ==
    /\ \A r \in 1..Len(trajectories) : FullLength(trajectories[r], n_generations)
    /\ Len(extinction_times) = Len(trajectories)
    /\ pc \in {"replicate", "generation", "after_loop"} => Len(trajectories) = replicate
    /\ pc = "done" => Len(trajectories) = n_replicates

\* a finished run with a replicate that went quasi-extinct before the horizon
\* and a replicate that never did
C4_Witness ==
    /\ pc = "done"
    /\ \E r \in 1..Len(extinction_times) :
          extinction_times[r] # None /\ The(extinction_times[r]) < n_generations
    /\ \E r \in 1..Len(extinction_times) : extinction_times[r] = None

\* C5: with survival 1, fertility 0, no noise, no catastrophe and no capacity,
\* for any number of age classes A >= 1, class i moves to class i + 1 and the
\* last class keeps its own survivors as well
C5_AgingShift ==
    (calls > 0 /\ NoNoise /\ SurvivalOneFertilityZero
        /\ catastrophe = None /\ carrying_capacity = None)
    => \A i \in 1..Len(female) :
          /\ female[i] = (IF i = 1 THEN 0 ELSE pre_female[i - 1])
                         + (IF i = Len(female) THEN pre_female[i] ELSE 0)
          /\ male[i] = (IF i = 1 THEN 0 ELSE pre_male[i - 1])
                       + (IF i = Len(male) THEN pre_male[i] ELSE 0)

RECURSIVE BirthsFrom(_, _, _, _)
\* the sum over the classes from index i on of round(S[i] * fertility[i]), S the
\* post-survival female counts
BirthsFrom(old, surv, fert, i) ==
    IF i > Len(old) THEN 0
    ELSE RoundMul(Aged(old, surv, i), fert[i]) + BirthsFrom(old, surv, fert, i + 1)

\* C6: without noise, catastrophe or capacity, class 0 holds the newborns
\* B = sum over classes i >= reproduction_age of round(S[i] * female_fertility[i]),
\* S the post-survival female counts: male[0] = round(B * male_birth_prop),
\* female[0] = B - male[0]; every class >= 1 holds its survivors
C6_NewbornsFromSurvivors ==
    (calls > 0 /\ NoNoise /\ catastrophe = None /\ carrying_capacity = None)
    => LET B == BirthsFrom(pre_female, vital_rates.female_survival,
                           vital_rates.female_fertility, reproduction_age + 1)
       IN  /\ male[1] = RoundMul(B, male_birth_prop)
           /\ female[1] = B - male[1]
           /\ \A i \in 2..Len(female) :
                 /\ female[i] = Aged(pre_female, vital_rates.female_survival, i)
                 /\ male[i] = Aged(pre_male, vital_rates.male_survival, i)

\* test_reproduction_deterministic: [0,10] / [0,10], fertility 2 in class 1
C6_Witness ==
    /\ calls = 1 /\ NoNoise /\ catastrophe = None /\ carrying_capacity = None
    /\ reproduction_age = 1 /\ male_birth_prop = Half
    /\ vital_rates = BreedingRates(2)
    /\ pre_female = <<0, 10>> /\ pre_male = <<0, 10>>
    /\ female = <<10, 10>> /\ male = <<10, 10>>

\* C7: test_catastrophe_deterministic: probability 1, mortality 0.5, survival 1,
\* fertility 0, [10,10] / [10,10]: after one call female[1] + male[1] = 10
C7_CatastropheHalves ==
    (/\ calls = 1 /\ NoNoise /\ carrying_capacity = None
     /\ catastrophe = Some(Cat(One, Half))
     /\ vital_rates = AgingRates(2)
     /\ pre_female = <<10, 10>> /\ pre_male = <<10, 10>>)
    => female[2] + male[2] = 10

\* C8: without noise or catastrophe, survival 1, fertility 0 and capacity K, a
\* population above K whose aged per-class counts scale to whole numbers under
\* K / total ends the call with total exactly K, for any number of age classes
C8_ScalesToCapacity ==
    (/\ calls > 0 /\ NoNoise /\ SurvivalOneFertilityZero /\ catastrophe = None
     /\ carrying_capacity # None
     /\ TotalPopulation(pre_female, pre_male) > The(carrying_capacity)
     /\ \A i \in 1..Len(pre_female) :
           /\ (Aged(pre_female, vital_rates.female_survival, i) * The(carrying_capacity))
                 % TotalPopulation(pre_female, pre_male) = 0
           /\ (Aged(pre_male, vital_rates.male_survival, i) * The(carrying_capacity))
                 % TotalPopulation(pre_female, pre_male) = 0)
    => TotalPopulation(female, male) = The(carrying_capacity)

\* what the last advance_generation call could have ended in, over every value
\* the random source can yield
Outcomes ==
    AdvanceGeneration(PrePopulation, vital_rates, catastrophe, demo_noise, env_noise,
                      FreeSource)

\* C9 as claimed: with both noise flags off the result of advance_generation is
\* the same whatever the random source yields, for every configuration
C9_DeterministicAlways ==
    (calls > 0 /\ NoNoise /\ pc = "direct")
        => \A o \in Outcomes : o.nf = female /\ o.nm = male

\* the catastrophe is absent, or certain never to fire or certain to fire
OccurrenceFixed ==
    \/ catastrophe = None
    \/ (The(catastrophe)).probability[1] <= 0
    \/ (The(catastrophe)).probability[1] >= (The(catastrophe)).probability[2]

\* C9, amended: with both noise flags off the result depends on the random source
\* only through whether the catastrophe fired; it is the same whatever the source
\* yields when no catastrophe is configured or its probability is 0 or 1
C9_DeterministicGivenOccurrence ==
    (calls > 0 /\ NoNoise /\ pc = "direct")
        => /\ \E o \in Outcomes : o.nf = female /\ o.nm = male
           /\ \A o1, o2 \in Outcomes :
                 o1.fired = o2.fired => (o1.nf = o2.nf /\ o1.nm = o2.nm)
           /\ OccurrenceFixed => \A o \in Outcomes : o.nf = female /\ o.nm = male

\* a call without noise in which a catastrophe of probability 1 removed individuals
C9_Witness ==
    /\ calls > 0 /\ NoNoise /\ pc = "direct"
    /\ catastrophe = Some(Cat(One, Half))
    /\ vital_rates = AgingRates(Len(female))
    /\ TotalPopulation(female, male) < TotalPopulation(pre_female, pre_male)
    /\ TotalPopulation(female, male) > 0

RECURSIVE IsolatedFrom(_, _, _, _, _)
\* a replicate run on its own from generation k on: counts f, m, generator g, rows
\* recs so far; the generator being deterministic, each call has one outcome
IsolatedFrom(f, m, g, recs, k) ==
    IF k > n_generations THEN [records |-> recs, extinct_at |-> None]
    ELSE LET o == The(AdvanceGeneration(
                        [female |-> f, male |-> m, carrying_capacity |-> carrying_capacity,
                         reproduction_age |-> 1, male_birth_prop |-> Half],
                        vital_rates, catastrophe, demo_noise, env_noise, g))
             t == SumSeq(o.nf) + SumSeq(o.nm)
             rows == Append(recs, [generation |-> k, female |-> SumSeq(o.nf),
                                   male |-> SumSeq(o.nm), total |-> t])
         IN  IF t <= q_threshold
             THEN [records |-> rows \o [j \in 1..(n_generations - k) |->
                                          [generation |-> k + j, female |-> 0,
                                           male |-> 0, total |-> 0]],
                   extinct_at |-> Some(k)]
             ELSE IsolatedFrom(o.nf, o.nm, o.g, rows, k + 1)

\* the replicate of the configured Simulation run on its own on a generator
\* freshly seeded with x
IsolatedReplicate(x) ==
    IsolatedFrom(initial_females, initial_males, [det |-> TRUE, s |-> x % RngMod],
                 <<[generation |-> 0, female |-> SumSeq(initial_females),
                    male |-> SumSeq(initial_males),
                    total |-> SumSeq(initial_females) + SumSeq(initial_males)]>>, 1)

\* C10: on the deterministic generator, an explicit seed is the base seed, and the
\* trajectory and extinction time of replicate r are those of the replicate run on
\* its own on a generator seeded with (base_seed + r) % (2**32 - 1): they depend
\* neither on the generator's state before run nor on the draws of replicates 0..r-1
C10_SeededReplicates ==
    rng.det =>
        /\ (seed # None /\ pc # "run") => base_seed = The(seed)
        /\ \A r \in 1..Len(trajectories) :
              LET iso == IsolatedReplicate((base_seed + (r - 1)) % SeedMod)
              IN  /\ trajectories[r] = iso.records
                  /\ extinction_times[r] = iso.extinct_at

\* a finished seeded run with demographic noise whose two replicates differ
C10_Witness ==
    /\ pc = "done" /\ rng.det /\ seed # None /\ demo_noise
    /\ n_generations >= 2
    /\ Len(trajectories) = 2
    /\ trajectories[1] # trajectories[2]
    /\ \E k \in 2..Len(trajectories[2]) : trajectories[2][k].total > 0

\* the value v stands at position p (from 1) when the finite entries of ts are
\* put in non-decreasing order
AtRank(ts, v, p) ==
    /\ Cardinality({i \in 1..Len(ts) : ts[i] # None /\ The(ts[i]) < v}) < p
    /\ p <= Cardinality({i \in 1..Len(ts) : ts[i] # None /\ The(ts[i]) <= v})

\* C11: summary reports replicates = length of the list, extinct = number of
\* finite entries, extinction_probability = extinct / replicates, mean and median
\* over the finite entries only; mean and median are NaN without a finite entry,
\* the probability is NaN for an empty list; [3, never, 5, never] gives
\* 4, 2, 0.5, 4.0, 4.0
C11_Summary ==
    summary_row # None =>
        LET row == The(summary_row)
            ts == extinction_times
            F == {i \in 1..Len(ts) : ts[i] # None}
            total == SumSeq([i \in 1..Len(ts) |-> IF ts[i] = None THEN 0 ELSE The(ts[i])])
            prob == row.extinction_probability
            mean == row.mean_time_to_extinction
            med == row.median_time_to_extinction
        IN  /\ row.replicates = Len(ts)
            /\ row.extinct = Cardinality(F)
            /\ (Len(ts) = 0) <=> (prob = NaN)
            /\ prob # NaN => The(prob)[1] * Len(ts) = Cardinality(F) * The(prob)[2]
            /\ (F = {}) <=> (mean = NaN)
            /\ (F = {}) <=> (med = NaN)
            /\ mean # NaN => The(mean)[1] * Cardinality(F) = total * The(mean)[2]
            \* the median is the mean of the entries at the two middle positions
            \* (one position for an odd number of finite entries)
            /\ med # NaN =>
                  \E v, w \in {The(ts[i]) : i \in F} :
                      /\ AtRank(ts, v, (Cardinality(F) + 1) \div 2)
                      /\ AtRank(ts, w, (Cardinality(F) \div 2) + 1)
                      /\ (v + w) * The(med)[2] = 2 * The(med)[1]
            /\ ts = <<Some(3), None, Some(5), None>> =>
                  row = [replicates |-> 4, extinct |-> 2,
                         extinction_probability |-> Some(Half),
                         mean_time_to_extinction |-> Some(<<4, 1>>),
                         median_time_to_extinction |-> Some(<<4, 1>>)]

\* the summary of [3, never, 5, never]
C11_Witness ==
    /\ pc = "result"
    /\ extinction_times = <<Some(3), None, Some(5), None>>
    /\ summary_row # None
    /\ (The(summary_row)).extinct = 2

\* a fraction lies in [0, 1]
InUnit(p) == 0 <= p[1] /\ p[1] <= p[2]

\* probability >= 0, mortality rate in [0, 1], standard deviations >= 0
InDomain ==
    /\ catastrophe # None =>
          /\ (The(catastrophe)).probability[1] >= 0
          /\ InUnit((The(catastrophe)).mortality_rate)
    /\ vital_rates.env_sd_survival[1] >= 0
    /\ vital_rates.env_sd_fertility[1] >= 0

\* C12: a Catastrophe with a negative probability or a mortality rate outside
\* [0, 1], or a VitalRates with a negative standard deviation, is rejected at
\* construction, so no generation is ever simulated with such values
C12_OutOfDomainRejected ==
    calls > 0 => InDomain

\* survival rates in [0, 1], fertility >= 0, catastrophe mortality in [0, 1],
\* capacity >= 0 or absent, initial counts >= 0
ValidInputs ==
    /\ \A i \in 1..Len(vital_rates.female_survival) :
          /\ InUnit(vital_rates.female_survival[i])
          /\ InUnit(vital_rates.male_survival[i])
          /\ vital_rates.female_fertility[i][1] >= 0
    /\ catastrophe # None => InUnit((The(catastrophe)).mortality_rate)
    /\ carrying_capacity # None => The(carrying_capacity) >= 0
    /\ \A i \in 1..Len(initial_females) : initial_females[i] >= 0 /\ initial_males[i] >= 0

\* every row of trajectory t has female >= 0, male >= 0, total = female + male
RowsSound(t) ==
    \A k \in 1..Len(t) :
        t[k].female >= 0 /\ t[k].male >= 0 /\ t[k].total = t[k].female + t[k].male

\* C13: from non-negative initial counts and rates, mortality and capacity in
\* their domains, every per-class count is a non-negative integer after any
\* sequence of advance_generation calls, with and without demographic noise,
\* and every recorded row has female >= 0, male >= 0, total = female + male
C13_NonNegativeCounts ==
    ValidInputs =>
        /\ \A i \in 1..Len(female) : female[i] \in Nat /\ male[i] \in Nat
        /\ RowsSound(records)
        /\ \A r \in 1..Len(trajectories) : RowsSound(trajectories[r])

\* a finished run with demographic noise, a catastrophe and a capacity in which
\* the population was reduced and is not extinct at the horizon
C13_Witness ==
    /\ pc = "done" /\ demo_noise /\ calls >= 2
    /\ catastrophe # None /\ carrying_capacity # None
    /\ \E r \in 1..Len(trajectories) :
          LET t == trajectories[r]
          IN  /\ t[Len(t)].total > 0
              /\ t[Len(t)].total < t[1].total
              /\ t[Len(t)].female > 0 /\ t[Len(t)].male > 0

\* the rows of the replicate in progress or, once it is finished, its trajectory
LastRows ==
    IF pc \in {"generation", "after_loop"} THEN records
    ELSE IF Len(trajectories) > 0 THEN trajectories[Len(trajectories)]
    ELSE <<>>

\* the extinction time of the replicate whose generation loop has ended
LastExtinctAt ==
    IF pc = "after_loop" THEN extinct_at ELSE extinction_times[Len(extinction_times)]

\* C14: a replicate whose total first satisfies is_extinct(q_threshold) after the
\* transition of generation g makes no further advance_generation call: it has
\* made g calls when it goes extinct at g and n_generations when it never does;
\* the row of generation g holds the totals the transition ended in, and only
\* the rows after g are zero padding
C14_StopsAtExtinction ==
    /\ pc = "generation" =>
          /\ calls = gen - 1 /\ Len(records) = gen
          /\ \A k \in 2..Len(records) : records[k].total > q_threshold
    /\ (pc = "after_loop" \/ (pc \in {"replicate", "return", "done"} /\ Len(trajectories) > 0)) =>
          LET t == LastRows
              e == LastExtinctAt
          IN  /\ \A k \in 2..Len(t) : t[k].total <= q_threshold => calls <= k - 1
              /\ e = None =>
                    /\ calls = n_generations
                    /\ \A k \in 2..Len(t) : t[k].total > q_threshold
              /\ e # None =>
                    /\ calls = The(e)
                    /\ The(e) >= 1
                    /\ t[The(e) + 1] = Row(The(e), SumSeq(female), SumSeq(male),
                                            TotalPopulation(female, male))
                    /\ t[The(e) + 1].total <= q_threshold
                    /\ \A k \in 2..The(e) : t[k].total > q_threshold
                    /\ pc # "after_loop" => ZeroAfter(t, The(e) + 1)

\* a finished replicate that went extinct before the horizon with individuals
\* left: the row of that generation is not zero, the rows after it are
C14_Witness ==
    /\ pc \in {"replicate", "return"} /\ Len(trajectories) > 0
    /\ LastExtinctAt # None
    /\ The(LastExtinctAt) < n_generations
    /\ calls = The(LastExtinctAt)
    /\ LastRows[The(LastExtinctAt) + 1].total > 0
    /\ LastRows[n_generations + 1].total = 0

\* the row of generation 0 of a replicate started from the run's initial counts
InitialRow ==
    Row(0, SumSeq(initial_females), SumSeq(initial_males),
        SumSeq(initial_females) + SumSeq(initial_males))

\* every replicate, finished or in progress, has InitialRow as its first row,
\* and a replicate that has not advanced yet holds the initial counts
StartsFromInitialCounts ==
    /\ \A r \in 1..Len(trajectories) : trajectories[r][1] = InitialRow
    /\ pc \in {"generation", "after_loop"} =>
          /\ records[1] = InitialRow
          /\ calls = 0 => (female = initial_females /\ male = initial_males)

\* no step of run changes the stored initial counts or the VitalRates
InputsUnchanged ==
    /\ initial_females' = initial_females
    /\ initial_males' = initial_males
    /\ vital_rates' = vital_rates

\* C15: every replicate starts from its own copy of the run's initial counts:
\* its generation-0 row holds the totals of the initial counts whatever happened
\* in the replicates before it, and run leaves initial_females, initial_males and
\* the VitalRates arrays as they were
C15_FreshReplicates ==
    []StartsFromInitialCounts /\ [][InputsUnchanged]_vars

\* a finished run whose first replicate ended with other counts than it started
\* from, followed by a second replicate
C15_Witness ==
    /\ pc = "done"
    /\ Len(trajectories) = 2
    /\ n_generations >= 1
    /\ trajectories[1][n_generations + 1] # [InitialRow EXCEPT !.generation = n_generations]
    /\ trajectories[2][1] = InitialRow
    /\ InitialRow.total > 0

\* the total births of the last call without noise
LastBirths ==
    BirthsFrom(pre_female, vital_rates.female_survival, vital_rates.female_fertility,
               reproduction_age + 1)

\* the post-reproduction counts of the last call without noise: the newborns in
\* class 0, the survivors in the classes above
PostReproductionFemale ==
    [i \in 1..Len(pre_female) |->
        IF i = 1 THEN LastBirths - RoundMul(LastBirths, male_birth_prop)
        ELSE Aged(pre_female, vital_rates.female_survival, i)]

PostReproductionMale ==
    [i \in 1..Len(pre_male) |->
        IF i = 1 THEN RoundMul(LastBirths, male_birth_prop)
        ELSE Aged(pre_male, vital_rates.male_survival, i)]

\* the catastrophe is configured and certain to fire
CertainToFire ==
    /\ catastrophe # None
    /\ (The(catastrophe)).probability[1] >= (The(catastrophe)).probability[2]

\* round(P[c] * (1 - m)) in every class when the catastrophe fires, P otherwise
AfterCatastrophe(P) ==
    IF CertainToFire
    THEN [i \in 1..Len(P) |-> RoundMul(P[i], Complement((The(catastrophe)).mortality_rate))]
    ELSE P

\* floor(count * K / T) in every class when T exceeds the capacity K, Q otherwise
AfterCapacity(Q, T) ==
    IF carrying_capacity # None /\ T > The(carrying_capacity)
    THEN [i \in 1..Len(Q) |-> (Q[i] * The(carrying_capacity)) \div T]
    ELSE Q

\* C16: the stages run in the order survival, reproduction, catastrophe,
\* capacity: without noise, a catastrophe that fires turns every class c of the
\* post-reproduction counts P, class 0 included, into round(P[c] * (1 - m)), and
\* only then, if the total T of these exceeds K, every class becomes
\* floor(count * K / T); a catastrophe that does not fire leaves P as it is, and
\* T <= K leaves the capacity step without effect
C16_StageOrder ==
    (calls > 0 /\ NoNoise /\ ValidInputs /\ InDomain /\ OccurrenceFixed)
    => LET Qf == AfterCatastrophe(PostReproductionFemale)
           Qm == AfterCatastrophe(PostReproductionMale)
           T == SumSeq(Qf) + SumSeq(Qm)
       IN  female = AfterCapacity(Qf, T) /\ male = AfterCapacity(Qm, T)

====
